---- MODULE Spec2Model ----
(***************************************************************************)
(* Model of the two Actual Reader bridges (tts-engine/bridge.py and        *)
(* vision-engine/bridge.py): a process that loads a model once, then reads *)
(* JSON lines from stdin and writes JSON lines to stdout.                  *)
(*                                                                         *)
(* One behaviour is one process lifetime.  `bridge` says which of the two  *)
(* programs runs.  The lines on stdin are chosen by the environment when   *)
(* they are read.  A JSON value is modelled by what the code inspects of   *)
(* it: whether it is an object, which keys it has, and for each key the    *)
(* Python type, truthiness and length of the value.                        *)
(***************************************************************************)
EXTENDS Integers, Sequences, FiniteSets, TLC

(* ---- bounds ---- *)
\* number of lines the environment supplies on stdin before end of stream
MaxLines == 3

(* ---- program constants ---- *)
\* tts bridge.py:79  len(text) > 10000
MaxTextLen == 10000

(* ---- JSON values ---- *)
\* a key that is missing from the decoded object
Absent == "<absent>"

\* ids: absent, supplied by the caller, synthesised f"req_{request_counter}",
\* or the literal "init"
NoId == [kind |-> "absent", n |-> 0]
GivenId(n) == [kind |-> "given", n |-> n]
SynthId(n) == [kind |-> "synth", n |-> n]
InitId == [kind |-> "init", n |-> 0]

\* the value under "text": absent, a string of n characters, or the number n
TextAbsent == [k |-> "absent", n |-> 0]
Str(n) == [k |-> "str", n |-> n]
Num(n) == [k |-> "num", n |-> n]

\* the one path requests name (voice sample or image); "" is the empty string
Path == "/data/input"
EmptyPath == ""

(* ---- input lines ---- *)
\* A line of stdin.  raw: "blank" (empty after strip), "malformed" (json.loads
\* raises JSONDecodeError), "nonobject" (valid JSON that is not an object: a
\* number, string, array, null), "object" (a JSON object with the keys below).
\* options/context: Absent, "dict" (a JSON object) or "nondict" (any other value).
\* context "dict" is an object without the keys caption() reads; "positioned"
\* is the object {"page_number": 87, "position": "top", "image_index": 2}.
Line(raw, type, id, text, voice, options, image, context) ==
  [raw |-> raw, type |-> type, id |-> id, text |-> text, voice_sample |-> voice,
   options |-> options, image_path |-> image, context |-> context]

BareLine(raw) ==
  Line(raw, Absent, NoId, TextAbsent, Absent, Absent, Absent, Absent)

Ids == {NoId, GivenId(1)}

\* objects that are not a generate/caption request of the bridge reading them
OtherObjects(types) ==
  { Line("object", t, i, TextAbsent, Absent, Absent, Absent, Absent) :
      t \in types, i \in Ids }

Texts == {TextAbsent, Str(0), Str(MaxTextLen), Str(MaxTextLen + 1), Num(5)}

\* generate requests: every text with and without a voice sample, the accepted
\* text with every voice sample and options value; the id is left out of the
\* plainest requests only
GenerateObjects ==
  { l \in { Line("object", "generate", i, t, v, o, Absent, Absent) :
              i \in Ids, t \in Texts, v \in {Absent, EmptyPath, Path},
              o \in {Absent, "dict", "nondict"} } :
      /\ \/ l.text = Str(MaxTextLen)
         \/ l.options = Absent /\ l.voice_sample # EmptyPath
      /\ \/ l.id # NoId
         \/ /\ l.text \in {Str(0), Str(MaxTextLen)}
            /\ l.options = Absent
            /\ l.voice_sample = Absent }

CaptionObjects ==
  { l \in { Line("object", "caption", i, TextAbsent, Absent, Absent, p, c) :
              i \in Ids, p \in {Absent, EmptyPath, Path},
              c \in {Absent, "dict", "nondict"} } :
      l.id # NoId \/ (l.context = Absent /\ l.image_path # EmptyPath) }
    \cup { Line("object", "caption", GivenId(1), TextAbsent, Absent, Absent,
                 Path, "positioned") }

TtsLines ==
  {BareLine("blank"), BareLine("malformed"), BareLine("nonobject")}
    \cup OtherObjects({Absent, "shutdown", "bogus"}) \cup GenerateObjects

VisionLines ==
  {BareLine("blank"), BareLine("malformed"), BareLine("nonobject")}
    \cup OtherObjects({Absent, "shutdown", "bogus"}) \cup CaptionObjects

Lines(b) == IF b = "tts" THEN TtsLines ELSE VisionLines

(* ---- responses ---- *)
\* path: n for os.path.join(temp_dir, f"tts_{n:04d}.wav"), 0 when there is none
Response(type, id, code, message, path) ==
  [type |-> type, id |-> id, code |-> code, message |-> message, path |-> path]

NoResponse == Response("none", NoId, Absent, Absent, 0)
Ready == Response("ready", NoId, Absent, Absent, 0)
Error(id, code, message) == Response("error", id, code, message, 0)
Audio(id, n) == Response("audio", id, Absent, Absent, n)
\* the caption is f"{position_prefix}: {description}"; the description is the
\* model's and is left out
CaptionResponse(id, position_prefix) ==
  Response("caption", id, Absent, position_prefix, 0)
InitError == Error(InitId, "ENGINE_ERROR", "Failed to load model")

VARIABLES
  bridge,           \* "tts" or "vision": which program this process runs
  pc,               \* position of main()
  temp_dir,         \* tts global temp_dir: "none", "exists", "removed"
  model,            \* global model: "none" or "loaded"
  request_counter,  \* global request_counter
  artifacts,        \* numbers n of the files tts_<n>.wav present in temp_dir
  files,            \* paths that exist on the filesystem (os.path.exists)
  out,              \* lines written to stdout so far
  line,             \* the line last read from stdin
  request,          \* the decoded request being handled
  response,         \* the response generate()/caption() returned
  exitStatus,       \* {} while running, {n} once the process exited with n
  hist              \* history: counters and snapshots the properties read

vars == <<bridge, pc, temp_dir, model, request_counter, artifacts, files,
          out, line, request, response, exitStatus, hist>>

\* caption()'s locals page_number, position, image_index before it sets them
\* (a page_number of 0 stands for None: the code tests its truthiness only)
NoContext == [page_number |-> 0, position |-> Absent, image_index |-> 0]

\* the state the loop's top sees; recorded each time stdin is read
Snapshot ==
  [out |-> out, temp_dir |-> temp_dir, model |-> model,
   request_counter |-> request_counter, artifacts |-> artifacts]

Init ==
  /\ bridge \in {"tts", "vision"}
  /\ pc = IF bridge = "tts" THEN "mkdtemp" ELSE "load"
  /\ temp_dir = "none"
  /\ model = "none"
  /\ request_counter = 0
  /\ artifacts = {}
  /\ files \in SUBSET {Path}
  /\ out = <<>>
  /\ line = BareLine("blank")
  /\ request = BareLine("blank")
  /\ response = NoResponse
  /\ exitStatus = {}
  /\ hist = [nRead |-> 0,          \* lines read from stdin
             reqLines |-> 0,       \* of these, non-blank and not a shutdown request
             outLine |-> <<>>,     \* for each line of out, the input line it answers
             top |-> Snapshot,     \* state when stdin was last read
             loadCalls |-> 0,      \* calls of load_model
             acquires |-> 0,       \* calls of tempfile.mkdtemp
             releases |-> 0,       \* calls of shutil.rmtree
             modelCalls |-> 0,     \* calls of model.generate
             lineCalls |-> 0,      \* calls of model.generate for the current line
             rulesRun |-> <<>>,    \* validation rules evaluated for the current line
             failure |-> "none",   \* what the model invocation for the current line raised
             context |-> NoContext, \* caption(): page_number, position, image_index
             exitReason |-> "none"]

(* ---- helpers ---- *)
\* send(obj): print(json.dumps(obj), flush=True); the written line answers the
\* input line read last (line 0 is startup)
SendOut(obj) == Append(out, obj)
SendLine(h) == [h EXCEPT !.outLine = Append(@, h.nRead)]

\* an exception no handler catches: the interpreter prints a traceback to
\* stderr and exits with status 1; nothing after the raise runs
Uncaught ==
  /\ pc' = "crashed"
  /\ exitStatus' = {1}
  /\ hist' = [hist EXCEPT !.exitReason = "crash"]

\* Python truthiness of the value under "text": "" and 0 are falsy
TextTruthy(t) == (t.k = "str" /\ t.n > 0) \/ (t.k = "num" /\ t.n # 0)
\* len(text) is defined for a string and raises TypeError for a number
HasLen(t) == t.k = "str"
\* truthiness of request.get("voice_sample") / request.get("image_path"):
\* None (absent) and "" are falsy
PathTruthy(p) == p # Absent /\ p # EmptyPath

\* line.strip() is empty
IsBlank(l) == l.raw = "blank"
\* the line decodes to an object whose "type" is "shutdown"
IsShutdown(l) == l.raw = "object" /\ l.type = "shutdown"

(* ---- startup ---- *)
\* tts main(): temp_dir = tempfile.mkdtemp(...)
MkTemp ==
  /\ pc = "mkdtemp"
  /\ temp_dir' = "exists"
  /\ hist' = [hist EXCEPT !.acquires = @ + 1]
  /\ pc' = "load"
  /\ UNCHANGED <<bridge, model, request_counter, artifacts, files, out, line,
                 request, response, exitStatus>>

\* LoadModel with the `return 1` of the except clause left out
LoadModelNoReturn ==
  /\ pc = "load"
  /\ \E ok \in BOOLEAN :
       IF ok
       THEN /\ model' = "loaded"
            /\ hist' = [hist EXCEPT !.loadCalls = @ + 1]
            /\ UNCHANGED out
       ELSE /\ out' = SendOut(InitError)
            /\ hist' = [SendLine(hist) EXCEPT !.loadCalls = @ + 1]
            /\ UNCHANGED model
  /\ pc' = "ready"
  /\ UNCHANGED <<bridge, temp_dir, request_counter, artifacts, files, line,
                 request, response, exitStatus>>

\* main(): try: load_model()  except Exception: send(init error); return 1
LoadModel ==
  /\ pc = "load"
  /\ \E ok \in BOOLEAN :
       IF ok
       THEN /\ model' = "loaded"
            /\ pc' = "ready"
            /\ hist' = [hist EXCEPT !.loadCalls = @ + 1]
            /\ UNCHANGED <<out, exitStatus>>
       ELSE /\ out' = SendOut(InitError)
            /\ exitStatus' = {1}
            /\ pc' = "exit"
            /\ hist' = [SendLine(hist) EXCEPT !.loadCalls = @ + 1,
                                              !.exitReason = "initfail"]
            /\ UNCHANGED model
  /\ UNCHANGED <<bridge, temp_dir, request_counter, artifacts, files, line,
                 request, response>>

\* SendReady with the send left out
SendReadySkipped ==
  /\ pc = "ready"
  /\ pc' = "for"
  /\ UNCHANGED <<bridge, temp_dir, model, request_counter, artifacts, files,
                 out, line, request, response, exitStatus, hist>>

\* main(): send({"type": "ready"})
SendReady ==
  /\ pc = "ready"
  /\ out' = SendOut(Ready)
  /\ hist' = SendLine(hist)
  /\ pc' = "for"
  /\ UNCHANGED <<bridge, temp_dir, model, request_counter, artifacts, files,
                 line, request, response, exitStatus>>

(* ---- the dispatch loop ---- *)
\* ReadLine where the end of the stream returns 0 at once, skipping the cleanup
ReadLineEofReturns ==
  /\ pc = "for"
  /\ \/ /\ hist.nRead < MaxLines
        /\ \E l \in Lines(bridge) :
             /\ line' = l
             /\ hist' = [hist EXCEPT
                  !.nRead = @ + 1,
                  !.reqLines = IF IsBlank(l) \/ IsShutdown(l) THEN @ ELSE @ + 1,
                  !.top = Snapshot,
                  !.lineCalls = 0,
                  !.rulesRun = <<>>,
                  !.failure = "none",
                  !.context = NoContext]
        /\ pc' = "decode"
        /\ UNCHANGED exitStatus
     \/ /\ line' = line
        /\ hist' = [hist EXCEPT !.top = Snapshot, !.exitReason = "eof"]
        /\ pc' = "exit"
        /\ exitStatus' = {0}
  /\ UNCHANGED <<bridge, temp_dir, model, request_counter, artifacts, files,
                 out, request, response>>

\* for line in sys.stdin: the next line, or the end of the stream (loop ends)
ReadLine ==
  /\ pc = "for"
  /\ \/ /\ hist.nRead < MaxLines
        /\ \E l \in Lines(bridge) :
             /\ line' = l
             /\ hist' = [hist EXCEPT
                  !.nRead = @ + 1,
                  !.reqLines = IF IsBlank(l) \/ IsShutdown(l) THEN @ ELSE @ + 1,
                  !.top = Snapshot,
                  !.lineCalls = 0,
                  !.rulesRun = <<>>,
                  !.failure = "none",
                  !.context = NoContext]
        /\ pc' = "decode"
     \/ /\ line' = line
        /\ hist' = [hist EXCEPT !.top = Snapshot, !.exitReason = "eof"]
        /\ pc' = "cleanup"
  /\ UNCHANGED <<bridge, temp_dir, model, request_counter, artifacts, files,
                 out, request, response, exitStatus>>

\* line = line.strip(); if not line: continue
\* try: request = json.loads(line)
\* except json.JSONDecodeError: send(INVALID_REQUEST "Invalid JSON"); continue
Decode ==
  /\ pc = "decode"
  /\ IF IsBlank(line)
     THEN /\ pc' = "for"
          /\ UNCHANGED <<out, request, hist>>
     ELSE IF line.raw = "malformed"
     THEN /\ out' = SendOut(Error(NoId, "INVALID_REQUEST", "Invalid JSON"))
          /\ hist' = SendLine(hist)
          /\ pc' = "for"
          /\ UNCHANGED request
     ELSE /\ request' = line
          /\ pc' = "dispatch"
          /\ UNCHANGED <<out, hist>>
  /\ UNCHANGED <<bridge, temp_dir, model, request_counter, artifacts, files,
                 line, response, exitStatus>>

\* the request type this bridge serves
Served(b) == IF b = "tts" THEN "generate" ELSE "caption"

\* Dispatch with `continue` in place of `break` in the shutdown branch
DispatchShutdownContinues ==
  /\ pc = "dispatch"
  /\ IF request.raw # "object"
     THEN /\ Uncaught
          /\ UNCHANGED out
     ELSE IF request.type = "shutdown"
     THEN /\ pc' = "for"
          /\ UNCHANGED <<out, hist, exitStatus>>
     ELSE IF request.type = Served(bridge)
     THEN /\ pc' = "handler"
          /\ UNCHANGED <<out, hist, exitStatus>>
     ELSE /\ out' = SendOut(Error(NoId, "INVALID_REQUEST", "Unknown request type"))
          /\ hist' = SendLine(hist)
          /\ pc' = "for"
          /\ UNCHANGED exitStatus
  /\ UNCHANGED <<bridge, temp_dir, model, request_counter, artifacts, files,
                 line, request, response>>

\* req_type = request.get("type"); shutdown: break; generate/caption: call the
\* handler; else: send(INVALID_REQUEST "Unknown request type").
\* request.get raises AttributeError when the decoded value is not a dict.
Dispatch ==
  /\ pc = "dispatch"
  /\ IF request.raw # "object"
     THEN /\ Uncaught
          /\ UNCHANGED out
     ELSE IF request.type = "shutdown"
     THEN /\ pc' = "cleanup"
          /\ hist' = [hist EXCEPT !.exitReason = "shutdown"]
          /\ UNCHANGED <<out, exitStatus>>
     ELSE IF request.type = Served(bridge)
     THEN /\ pc' = "handler"
          /\ UNCHANGED <<out, hist, exitStatus>>
     ELSE /\ out' = SendOut(Error(NoId, "INVALID_REQUEST", "Unknown request type"))
          /\ hist' = SendLine(hist)
          /\ pc' = "for"
          /\ UNCHANGED exitStatus
  /\ UNCHANGED <<bridge, temp_dir, model, request_counter, artifacts, files,
                 line, request, response>>

(* ---- tts: generate(request) ---- *)
\* ReqId that ignores the id the request carries
ReqIdAlwaysSynth(req, counter) == SynthId(counter)

\* req_id = request.get("id", f"req_{request_counter}")
ReqId(req, counter) == IF req.id = NoId THEN SynthId(counter) ELSE req.id

\* generate(), from its first line to the options: what the call does before it
\* reaches the model.  kind "return": an error response is returned; "raise":
\* an exception leaves generate() (these lines are outside its try); "pass":
\* the model is invoked next.  rules: the checks evaluated, in order.
GenerateCheck(req, counter, fs) ==
  LET req_id == ReqId(req, counter)
      text == IF req.text = TextAbsent THEN Str(0) ELSE req.text
      voice_sample == req.voice_sample
      Result(kind, resp, rules) == [kind |-> kind, response |-> resp, rules |-> rules]
  IN IF ~TextTruthy(text)
     THEN Result("return", Error(req_id, "INVALID_TEXT", "Text is empty"), <<"empty">>)
     ELSE IF ~HasLen(text)
     THEN Result("raise", NoResponse, <<"empty", "long">>)
     ELSE IF text.n > MaxTextLen
     THEN Result("return",
                 Error(req_id, "INVALID_TEXT", "Text too long (max 10000 chars)"),
                 <<"empty", "long">>)
     ELSE IF ~PathTruthy(voice_sample)
     THEN IF req.options = "nondict"
          THEN Result("raise", NoResponse, <<"empty", "long", "voice">>)
          ELSE Result("pass", NoResponse, <<"empty", "long", "voice">>)
     ELSE IF voice_sample \notin fs
     THEN Result("return",
                 Error(req_id, "VOICE_NOT_FOUND", "Voice sample not found"),
                 <<"empty", "long", "voice", "exists">>)
     ELSE IF req.options = "nondict"
     THEN Result("raise", NoResponse, <<"empty", "long", "voice", "exists">>)
     ELSE Result("pass", NoResponse, <<"empty", "long", "voice", "exists">>)

\* Generate with `request_counter += 1` moved to the head of generate()
GenerateCountsFirst ==
  /\ pc = "handler"
  /\ bridge = "tts"
  /\ request_counter' = request_counter + 1
  /\ LET r == GenerateCheck(request, request_counter, files)
     IN IF r.kind = "raise"
        THEN /\ pc' = "crashed"
             /\ exitStatus' = {1}
             /\ hist' = [hist EXCEPT !.exitReason = "crash", !.rulesRun = r.rules]
             /\ UNCHANGED response
        ELSE /\ pc' = IF r.kind = "return" THEN "send" ELSE "invoke"
             /\ response' = r.response
             /\ hist' = [hist EXCEPT !.rulesRun = r.rules]
             /\ UNCHANGED exitStatus
  /\ UNCHANGED <<bridge, temp_dir, model, artifacts, files, out, line, request>>

\* main() calls generate(request): the validation and the options
Generate ==
  /\ pc = "handler"
  /\ bridge = "tts"
  /\ LET r == GenerateCheck(request, request_counter, files)
     IN IF r.kind = "raise"
        THEN /\ pc' = "crashed"
             /\ exitStatus' = {1}
             /\ hist' = [hist EXCEPT !.exitReason = "crash", !.rulesRun = r.rules]
             /\ UNCHANGED response
        ELSE /\ pc' = IF r.kind = "return" THEN "send" ELSE "invoke"
             /\ response' = r.response
             /\ hist' = [hist EXCEPT !.rulesRun = r.rules]
             /\ UNCHANGED exitStatus
  /\ UNCHANGED <<bridge, temp_dir, model, request_counter, artifacts, files,
                 out, line, request>>

\* What the try block of generate()/caption() can raise, by what the except
\* clauses look at: the class and whether str(e).lower() holds "out of memory".
\*   "oom"            a RuntimeError that says out of memory
\*   "runtime"        any other RuntimeError
\*   "exception_oom"  an Exception that is no RuntimeError and says out of memory
\*   "exception"      any other Exception
Failures == {"oom", "runtime", "exception_oom", "exception"}
IsRuntimeError(failure) == failure \in {"oom", "runtime"}
SaysOutOfMemory(failure) == failure \in {"oom", "exception_oom"}
\* str(e)
FailureText(failure) ==
  IF SaysOutOfMemory(failure) THEN "CUDA out of memory" ELSE "engine failure"

\* Classify with the exception's class name as the code of the other failures
ClassifyByClassName(req_id, failure) ==
  IF IsRuntimeError(failure) /\ SaysOutOfMemory(failure)
  THEN Error(req_id, "OUT_OF_MEMORY", FailureText(failure))
  ELSE Error(req_id,
             IF IsRuntimeError(failure) THEN "RuntimeError" ELSE "Exception",
             FailureText(failure))

\* Classify without the isinstance test of the first except clause: every
\* exception that says out of memory is OUT_OF_MEMORY
ClassifyByTextOnly(req_id, failure) ==
  IF SaysOutOfMemory(failure)
  THEN Error(req_id, "OUT_OF_MEMORY", FailureText(failure))
  ELSE Error(req_id, "ENGINE_ERROR", FailureText(failure))

\* the except clauses of generate() and caption(): RuntimeError whose text
\* holds "out of memory" -> OUT_OF_MEMORY; any other Exception -> ENGINE_ERROR
Classify(req_id, failure) ==
  IF IsRuntimeError(failure) /\ SaysOutOfMemory(failure)
  THEN Error(req_id, "OUT_OF_MEMORY", FailureText(failure))
  ELSE Error(req_id, "ENGINE_ERROR", FailureText(failure))

\* InvokeGenerate with `request_counter += 1` left out
InvokeGenerateNoIncrement ==
  /\ pc = "invoke"
  /\ bridge = "tts"
  /\ LET req_id == ReqId(request, request_counter)
     IN \E outcome \in {"ok", "save"} \cup Failures :
          /\ hist' = [hist EXCEPT
               !.modelCalls = @ + 1,
               !.lineCalls = @ + 1,
               !.failure = IF outcome = "ok" THEN "none"
                           ELSE IF outcome = "save" THEN "exception"
                           ELSE outcome]
          /\ IF outcome = "ok"
             THEN /\ artifacts' = artifacts \cup {request_counter}
                  /\ response' = Audio(req_id, request_counter)
             ELSE IF outcome = "save"
             THEN /\ \E written \in BOOLEAN :
                       artifacts' = IF written
                                    THEN artifacts \cup {request_counter}
                                    ELSE artifacts
                  /\ response' = Classify(req_id, "exception")
             ELSE /\ response' = Classify(req_id, outcome)
                  /\ UNCHANGED artifacts
  /\ UNCHANGED request_counter
  /\ pc' = "send"
  /\ UNCHANGED <<bridge, temp_dir, model, files, out, line, request, exitStatus>>

\* InvokeGenerate that calls model.generate a second time when the first call
\* raised, and answers with the second failure
InvokeGenerateRetries ==
  /\ pc = "invoke"
  /\ bridge = "tts"
  /\ LET req_id == ReqId(request, request_counter)
     IN \E outcome \in {"ok"} \cup Failures :
          /\ hist' = [hist EXCEPT
               !.modelCalls = IF outcome = "ok" THEN @ + 1 ELSE @ + 2,
               !.lineCalls = IF outcome = "ok" THEN @ + 1 ELSE @ + 2,
               !.failure = IF outcome = "ok" THEN "none" ELSE outcome]
          /\ IF outcome = "ok"
             THEN /\ request_counter' = request_counter + 1
                  /\ artifacts' = artifacts \cup {request_counter + 1}
                  /\ response' = Audio(req_id, request_counter + 1)
             ELSE /\ response' = Classify(req_id, outcome)
                  /\ UNCHANGED <<request_counter, artifacts>>
  /\ pc' = "send"
  /\ UNCHANGED <<bridge, temp_dir, model, files, out, line, request, exitStatus>>

\* generate(), the try block: model.generate(...); request_counter += 1;
\* ta.save(output_path, wav, sample_rate); return the audio response.
\* outcome "save": model.generate returned and ta.save raised, after the
\* counter was incremented; the file may or may not have been created.
InvokeGenerate ==
  /\ pc = "invoke"
  /\ bridge = "tts"
  /\ LET req_id == ReqId(request, request_counter)
     IN \E outcome \in {"ok", "save"} \cup Failures :
          /\ hist' = [hist EXCEPT
               !.modelCalls = @ + 1,
               !.lineCalls = @ + 1,
               !.failure = IF outcome = "ok" THEN "none"
                           ELSE IF outcome = "save" THEN "exception"
                           ELSE outcome]
          /\ IF outcome = "ok"
             THEN /\ request_counter' = request_counter + 1
                  /\ artifacts' = artifacts \cup {request_counter + 1}
                  /\ response' = Audio(req_id, request_counter + 1)
             ELSE IF outcome = "save"
             THEN /\ request_counter' = request_counter + 1
                  /\ \E written \in BOOLEAN :
                       artifacts' = IF written
                                    THEN artifacts \cup {request_counter + 1}
                                    ELSE artifacts
                  /\ response' = Classify(req_id, "exception")
             ELSE /\ response' = Classify(req_id, outcome)
                  /\ UNCHANGED <<request_counter, artifacts>>
  /\ pc' = "send"
  /\ UNCHANGED <<bridge, temp_dir, model, files, out, line, request, exitStatus>>

(* ---- vision: caption(request) ---- *)
\* caption(), from its first line to the validation.  context.get raises
\* AttributeError when "context" is not an object, before any rule is checked.
CaptionCheck(req, counter, fs) ==
  LET req_id == ReqId(req, counter)
      image_path == req.image_path
      Result(kind, resp, rules) == [kind |-> kind, response |-> resp, rules |-> rules]
  IN IF req.context = "nondict"
     THEN Result("raise", NoResponse, <<>>)
     ELSE IF ~PathTruthy(image_path)
     THEN Result("return",
                 Error(req_id, "INVALID_REQUEST", "image_path is required"),
                 <<"required">>)
     ELSE IF image_path \notin fs
     THEN Result("return",
                 Error(req_id, "IMAGE_NOT_FOUND", "Image not found: " \o image_path),
                 <<"required", "exists">>)
     ELSE Result("pass", NoResponse, <<"required", "exists">>)

\* caption(): context = request.get("context", {}); page_number =
\* context.get("page_number"); position = context.get("position", "middle");
\* image_index = context.get("image_index", 0)
ContextOf(req) ==
  IF req.context = "positioned"
  THEN [page_number |-> 87, position |-> "top", image_index |-> 2]
  ELSE [page_number |-> 0, position |-> "middle", image_index |-> 0]

\* format_position(position, image_index, page_number), for image_index >= 0
FormatPosition(position, image_index, page_number) ==
  LET pos_desc ==
        CASE position = "top" -> "near the top of the page"
          [] position = "middle" -> "in the middle of the page"
          [] position = "bottom" -> "near the bottom of the page"
          [] position = "full-page" -> "taking the full page"
          [] position = "inline" -> "inline with the text"
          [] OTHER -> "on the page"
      ordinals == <<"First", "Second", "Third", "Fourth", "Fifth", "Sixth",
                    "Seventh", "Eighth", "Ninth", "Tenth">>
      ordinal == IF image_index < Len(ordinals)
                 THEN ordinals[image_index + 1]
                 ELSE "Image " \o ToString(image_index + 1)
  IN IF page_number # 0
     THEN ordinal \o " image on page " \o ToString(page_number) \o ", " \o pos_desc
     ELSE ordinal \o " image, " \o pos_desc

\* main() calls caption(request): the context and the validation
Caption ==
  /\ pc = "handler"
  /\ bridge = "vision"
  /\ LET r == CaptionCheck(request, request_counter, files)
     IN IF r.kind = "raise"
        THEN /\ pc' = "crashed"
             /\ exitStatus' = {1}
             /\ hist' = [hist EXCEPT !.exitReason = "crash", !.rulesRun = r.rules]
             /\ UNCHANGED response
        ELSE /\ pc' = IF r.kind = "return" THEN "send" ELSE "invoke"
             /\ response' = r.response
             /\ hist' = [hist EXCEPT !.rulesRun = r.rules,
                                     !.context = ContextOf(request)]
             /\ UNCHANGED exitStatus
  /\ UNCHANGED <<bridge, temp_dir, model, request_counter, artifacts, files,
                 out, line, request>>

\* InvokeCaption that calls load_model again after an out-of-memory failure
InvokeCaptionReloads ==
  /\ pc = "invoke"
  /\ bridge = "vision"
  /\ LET req_id == ReqId(request, request_counter)
     IN \E outcome \in {"ok"} \cup Failures :
          /\ hist' = [hist EXCEPT
               !.modelCalls = @ + 1,
               !.lineCalls = @ + 1,
               !.loadCalls = IF outcome = "oom" THEN @ + 1 ELSE @,
               !.failure = IF outcome = "ok" THEN "none" ELSE outcome]
          /\ IF outcome = "ok"
             THEN /\ request_counter' = request_counter + 1
                  /\ response' = CaptionResponse(req_id,
                       FormatPosition(hist.context.position,
                                      hist.context.image_index,
                                      hist.context.page_number))
             ELSE /\ response' = Classify(req_id, outcome)
                  /\ UNCHANGED request_counter
  /\ pc' = "send"
  /\ UNCHANGED <<bridge, temp_dir, model, artifacts, files, out, line, request,
                 exitStatus>>

\* caption(), the try block: open the image, model.generate(...), decode,
\* request_counter += 1, return the caption response
InvokeCaption ==
  /\ pc = "invoke"
  /\ bridge = "vision"
  /\ LET req_id == ReqId(request, request_counter)
     IN \E outcome \in {"ok"} \cup Failures :
          /\ hist' = [hist EXCEPT
               !.modelCalls = @ + 1,
               !.lineCalls = @ + 1,
               !.failure = IF outcome = "ok" THEN "none" ELSE outcome]
          /\ IF outcome = "ok"
             THEN /\ request_counter' = request_counter + 1
                  /\ response' = CaptionResponse(req_id,
                       FormatPosition(hist.context.position,
                                      hist.context.image_index,
                                      hist.context.page_number))
             ELSE /\ response' = Classify(req_id, outcome)
                  /\ UNCHANGED request_counter
  /\ pc' = "send"
  /\ UNCHANGED <<bridge, temp_dir, model, artifacts, files, out, line, request,
                 exitStatus>>

(* ---- back in main() ---- *)
\* SendResponse with the response sent twice
SendResponseTwice ==
  /\ pc = "send"
  /\ out' = Append(SendOut(response), response)
  /\ hist' = [hist EXCEPT !.outLine = Append(Append(@, hist.nRead), hist.nRead),
                          !.failure = "none", !.context = NoContext]
  /\ pc' = "for"
  /\ UNCHANGED <<bridge, temp_dir, model, request_counter, artifacts, files,
                 line, request, response, exitStatus>>

\* SendResponse with the rmtree of the cleanup indented into the loop body
SendResponseThenCleanup ==
  /\ pc = "send"
  /\ out' = SendOut(response)
  /\ IF bridge = "tts"
     THEN /\ temp_dir' = "removed"
          /\ artifacts' = {}
          /\ hist' = [SendLine(hist) EXCEPT !.failure = "none",
                                            !.context = NoContext,
                                            !.releases = @ + 1]
     ELSE /\ hist' = [SendLine(hist) EXCEPT !.failure = "none",
                                            !.context = NoContext]
          /\ UNCHANGED <<temp_dir, artifacts>>
  /\ pc' = "for"
  /\ UNCHANGED <<bridge, model, request_counter, files, line, request,
                 response, exitStatus>>

\* response = generate(request) / caption(request); send(response)
\* (the handler's exception and locals are gone once it has returned)
SendResponse ==
  /\ pc = "send"
  /\ out' = SendOut(response)
  /\ hist' = [SendLine(hist) EXCEPT !.failure = "none", !.context = NoContext]
  /\ pc' = "for"
  /\ UNCHANGED <<bridge, temp_dir, model, request_counter, artifacts, files,
                 line, request, response, exitStatus>>

\* after the loop.  tts: shutil.rmtree(temp_dir, ignore_errors=True); return 0
\* vision: return 0
Cleanup ==
  /\ pc = "cleanup"
  /\ IF bridge = "tts"
     THEN /\ temp_dir' = "removed"
          /\ artifacts' = {}
          /\ hist' = [hist EXCEPT !.releases = @ + 1]
     ELSE UNCHANGED <<temp_dir, artifacts, hist>>
  /\ exitStatus' = {0}
  /\ pc' = "exit"
  /\ UNCHANGED <<bridge, model, request_counter, files, out, line, request,
                 response>>

Next ==
  \/ MkTemp
  \/ LoadModel
  \/ SendReady
  \/ ReadLine
  \/ Decode
  \/ Dispatch
  \/ Generate
  \/ InvokeGenerate
  \/ Caption
  \/ InvokeCaption
  \/ SendResponse
  \/ Cleanup

Spec == Init /\ [][Next]_vars

(* ---- artifact names ---- *)
\* f"tts_{n:04d}.wav": n in decimal, padded with zeros to four digits
ArtifactName(n) ==
  LET pad == IF n < 10 THEN "000"
             ELSE IF n < 100 THEN "00"
             ELSE IF n < 1000 THEN "0"
             ELSE ""
  IN "tts_" \o pad \o ToString(n) \o ".wav"

(* ---- the validation alone, called again on the same request ---- *)
\* how many times the request is validated
MaxValidations == 2

\* the validation the bridge runs on a request: generate() up to its try block
\* in the tts bridge, caption() up to its try block in the vision bridge
Validate(b, req, counter, fs) ==
  IF b = "tts" THEN GenerateCheck(req, counter, fs) ELSE CaptionCheck(req, counter, fs)

\* one request object, a filesystem, a bridge that is serving; hist.verdicts
\* lists what each validation of the request gave and the counter it ran at
ValidateInit ==
  /\ bridge \in {"tts", "vision"}
  /\ request \in (IF bridge = "tts" THEN GenerateObjects ELSE CaptionObjects)
  /\ files \in SUBSET {Path}
  /\ request_counter = 0
  /\ pc = "handler"
  /\ temp_dir = IF bridge = "tts" THEN "exists" ELSE "none"
  /\ model = "loaded"
  /\ artifacts = {}
  /\ out = <<Ready>>
  /\ line = request
  /\ response = NoResponse
  /\ exitStatus = {}
  /\ hist = [verdicts |-> <<>>]

\* generate(request) / caption(request) is entered with the request and
\* leaves at the end of the validation
ValidateAgain ==
  /\ Len(hist.verdicts) < MaxValidations
  /\ LET r == Validate(bridge, request, request_counter, files)
     IN /\ hist' = [hist EXCEPT !.verdicts =
                      Append(@, [counter |-> request_counter, result |-> r])]
        /\ response' = r.response
  /\ UNCHANGED <<bridge, pc, temp_dir, model, request_counter, artifacts,
                 files, out, line, request, exitStatus>>

\* another request is served with success in between: request_counter += 1
\* (tts: its artifact is written); the files requests name stay as they are
ServeOther ==
  /\ request_counter < MaxLines
  /\ request_counter' = request_counter + 1
  /\ artifacts' = IF bridge = "tts" THEN artifacts \cup {request_counter + 1}
                                    ELSE artifacts
  /\ UNCHANGED <<bridge, pc, temp_dir, model, files, out, line, request,
                 response, exitStatus, hist>>

ValidateNext == ValidateAgain \/ ServeOther

SpecValidate == ValidateInit /\ [][ValidateNext]_vars

(* ======================= properties ======================= *)

\* the bridge has finished with the line it read last: it waits for the next
\* one, or the process is past the loop or dead
LineDone == pc \in {"for", "cleanup", "exit", "crashed"}

\* the line read last is being handled
InLine == pc \in {"decode", "dispatch", "handler", "invoke", "send"}

\* C1: in both bridges every non-empty input line read while serving that is
\* not a shutdown request has exactly one response line on stdout by the time
\* the bridge is done with it, whatever the line holds: stdout holds Ready and
\* one line per such input line.
C1_OneResponsePerLine ==
  (model = "loaded" /\ LineDone) => Len(out) = 1 + hist.reqLines

\* C2: once Ready was sent, the loop is left only because a shutdown request
\* was decoded or stdin ended; no input line ends the process any other way.
C2_LeavesServingOnlyByShutdownOrEof ==
  (model = "loaded" /\ pc \in {"cleanup", "exit", "crashed"})
    => hist.exitReason \in {"shutdown", "eof"}

\* C3: when the line just handled decoded to an object that supplies an id
\* (and is not a shutdown), the response written for it carries that id.
C3_ResponseEchoesId ==
  (pc = "for" /\ hist.nRead > 0 /\ line.raw = "object" /\ line.id # NoId
     /\ ~IsShutdown(line))
    => /\ Len(out) > 1
       /\ hist.outLine[Len(out)] = hist.nRead
       /\ out[Len(out)].id = line.id

\* C4: when load_model succeeded, Ready is written exactly once, it is the
\* first line of stdout, and it is written before any input line is read.
C4_ReadyOnceFirst ==
  /\ Cardinality({i \in DOMAIN out : out[i].type = "ready"}) <= 1
  /\ (model = "loaded" /\ pc # "ready")
       => /\ out # <<>>
          /\ out[1] = Ready
          /\ hist.outLine[1] = 0
          /\ Cardinality({i \in DOMAIN out : out[i].type = "ready"}) = 1
  /\ (hist.nRead > 0 \/ hist.modelCalls > 0 \/ InLine)
       => (out # <<>> /\ out[1] = Ready)

C4_Witness ==
  /\ pc = "exit"
  /\ model = "loaded"
  /\ hist.nRead >= 2
  /\ Len(out) >= 3

\* C5: when load_model fails the bridge writes exactly one line, the Error with
\* id "init" and code ENGINE_ERROR, never Ready, reads no input line, calls
\* load_model once only and is terminated.
C5_InitFailure ==
  (hist.loadCalls > 0 /\ model = "none")
    => /\ pc = "exit"
       /\ out = <<InitError>>
       /\ InitError.id = InitId /\ InitError.code = "ENGINE_ERROR"
       /\ hist.nRead = 0
       /\ hist.loadCalls = 1
       /\ hist.modelCalls = 0

C5_Witness ==
  /\ hist.loadCalls = 1
  /\ model = "none"
  /\ pc = "exit"
  /\ Len(out) = 1

\* C6: responses are written in the order of the input lines they answer, at
\* most one per line; when a line has just been read every earlier request
\* line has its response on stdout already, and no response to the line being
\* handled is on stdout before it is sent.
C6_ResponsesInOrder ==
  /\ Len(hist.outLine) = Len(out)
  /\ \A i, j \in DOMAIN hist.outLine : i < j => hist.outLine[i] < hist.outLine[j]
  /\ InLine => /\ \A i \in DOMAIN hist.outLine : hist.outLine[i] < hist.nRead
               /\ Len(out) = 1 + hist.reqLines
                      - (IF IsBlank(line) \/ IsShutdown(line) THEN 0 ELSE 1)

C6_Witness ==
  /\ pc = "for"
  /\ hist.nRead = 3
  /\ hist.outLine = <<0, 1, 2, 3>>
  /\ out[2] # out[3]

\* C7: from the moment a shutdown line is read, nothing is written to stdout
\* (so no response to the shutdown either), no further line is read and the
\* model is not invoked, in any later step.
C7_ShutdownStops ==
  [][(hist.nRead > 0 /\ IsShutdown(line))
       => /\ out' = out
          /\ hist'.nRead = hist.nRead
          /\ hist'.modelCalls = hist.modelCalls
          /\ pc' \in {"dispatch", "cleanup", "exit"}]_vars

C7_Witness ==
  /\ pc = "exit"
  /\ IsShutdown(line)
  /\ hist.exitReason = "shutdown"
  /\ hist.nRead = 2
  /\ Len(out) = 2

\* C8: a run ended by end of stream and a run ended by a shutdown line end
\* alike: both add nothing to what stdout held after the requests before the
\* end (the state when stdin was read last), and both exit with status 0, the
\* loop left, the model still loaded and (tts) the temp directory removed.
C8_EofLikeShutdown ==
  (pc \in {"cleanup", "exit"} /\ hist.exitReason \in {"eof", "shutdown"})
    => /\ out = hist.top.out
       /\ request_counter = hist.top.request_counter
       /\ model = "loaded"
       /\ pc = "cleanup"
            => /\ temp_dir = hist.top.temp_dir
               /\ artifacts = hist.top.artifacts
               /\ exitStatus = {}
       /\ pc = "exit"
            => /\ exitStatus = {0}
               /\ temp_dir = IF bridge = "tts" THEN "removed" ELSE "none"
               /\ artifacts = {}
               /\ hist.releases = IF bridge = "tts" THEN 1 ELSE 0

C8_Witness ==
  /\ pc = "exit"
  /\ hist.exitReason = "eof"
  /\ bridge = "tts"
  /\ hist.nRead = 2
  /\ Len(out) = 3
  /\ request_counter > 0

\* C9: in the tts bridge every terminated run, also one ended by a failed
\* load_model, acquired the temp directory once and released it once.
C9_TempDirReleasedAtExit ==
  (bridge = "tts" /\ pc = "exit")
    => /\ hist.acquires = 1
       /\ hist.releases = 1
       /\ temp_dir = "removed"

\* C10: the tts validator answers with the first failing rule, in the order
\* empty text, text longer than 10000 characters, missing voice sample, and
\* evaluates no later rule; a request that passes all three reaches the model.
\* Read for text that is a string (or absent) and a voice sample that is a
\* non-empty path.
C10_GenerateValidationOrder ==
  LET text == IF request.text = TextAbsent THEN Str(0) ELSE request.text
      req_id == ReqId(request, request_counter)
      handled == /\ bridge = "tts"
                 /\ request.raw = "object" /\ request.type = "generate"
                 /\ line = request
                 /\ hist.lineCalls = 0
                 /\ pc \in {"send", "invoke", "crashed"}
  IN (handled /\ text.k = "str")
       => IF text.n = 0
          THEN /\ pc = "send"
               /\ response = Error(req_id, "INVALID_TEXT", "Text is empty")
               /\ hist.rulesRun = <<"empty">>
          ELSE IF text.n > MaxTextLen
          THEN /\ pc = "send"
               /\ response = Error(req_id, "INVALID_TEXT",
                                   "Text too long (max 10000 chars)")
               /\ hist.rulesRun = <<"empty", "long">>
          ELSE IF PathTruthy(request.voice_sample) /\ request.voice_sample \notin files
          THEN /\ pc = "send"
               /\ response = Error(req_id, "VOICE_NOT_FOUND", "Voice sample not found")
          ELSE pc = "invoke"


\* C11: the vision validator answers INVALID_REQUEST "image_path is required"
\* when image_path is absent or empty, else IMAGE_NOT_FOUND "Image not found:
\* <path>" when the path does not exist, in that order, and else reaches the
\* model; a context without position and image_index gives "middle" and 0 and
\* no error.
C11_CaptionValidation ==
  LET req_id == ReqId(request, request_counter)
      handled == /\ bridge = "vision"
                 /\ request.raw = "object" /\ request.type = "caption"
                 /\ line = request
                 /\ hist.lineCalls = 0
                 /\ pc \in {"send", "invoke", "crashed"}
  IN handled
       => /\ IF ~PathTruthy(request.image_path)
             THEN /\ pc = "send"
                  /\ response = Error(req_id, "INVALID_REQUEST", "image_path is required")
                  /\ hist.rulesRun = <<"required">>
             ELSE IF request.image_path \notin files
             THEN /\ pc = "send"
                  /\ response = Error(req_id, "IMAGE_NOT_FOUND",
                                      "Image not found: " \o request.image_path)
                  /\ hist.rulesRun = <<"required", "exists">>
             ELSE pc = "invoke"
          /\ request.context # "positioned"
               => /\ hist.context.position = "middle"
                  /\ hist.context.image_index = 0

\* the model invocation for the current line has failed and its response is
\* not sent yet
Failed == pc = "send" /\ hist.failure # "none"

\* C12 as stated: every failed invocation whose exception says out of memory is
\* answered OUT_OF_MEMORY, every other one ENGINE_ERROR with the exception's
\* text, and the bridge stays in the loop with the model loaded.
C12_OomByIndicator ==
  Failed
    => /\ response = Error(ReqId(request, hist.top.request_counter),
                           IF SaysOutOfMemory(hist.failure)
                           THEN "OUT_OF_MEMORY" ELSE "ENGINE_ERROR",
                           FailureText(hist.failure))
       /\ model = "loaded"

\* C12 as amended: a failed invocation is answered OUT_OF_MEMORY exactly when
\* the exception is a RuntimeError that says out of memory, and ENGINE_ERROR
\* with the exception's text otherwise (any other RuntimeError, any other
\* Exception, also one that says out of memory); the response carries the
\* request's id, the model stays loaded and the response is sent next, after
\* which the bridge reads the next line.
C12_OomByRuntimeError ==
  /\ Failed
       => /\ response = Error(ReqId(request, hist.top.request_counter),
                              IF IsRuntimeError(hist.failure)
                                   /\ SaysOutOfMemory(hist.failure)
                              THEN "OUT_OF_MEMORY" ELSE "ENGINE_ERROR",
                              FailureText(hist.failure))
          /\ model = "loaded"
          /\ exitStatus = {}
  /\ (pc = "for" /\ hist.nRead > 0 /\ hist.lineCalls > 0)
       => /\ model = "loaded"
          /\ hist.outLine[Len(out)] = hist.nRead
          /\ out[Len(out)] = response

C12_Witness ==
  /\ pc = "for"
  /\ hist.nRead = 2
  /\ Len(out) = 3
  /\ out[2].code = "OUT_OF_MEMORY"
  /\ out[3].code = "ENGINE_ERROR"
  /\ out[3].message = "CUDA out of memory"

\* C13: the exit status is 0 on every run whose model load succeeded, whatever
\* the input lines held, and non-zero exactly on the runs whose load failed.
C13_ExitCode ==
  pc \in {"exit", "crashed"}
    => /\ exitStatus # {}
       /\ (exitStatus = {0}) <=> (model = "loaded")

ErrorCodes ==
  {"INVALID_REQUEST", "INVALID_TEXT", "VOICE_NOT_FOUND", "IMAGE_NOT_FOUND",
   "OUT_OF_MEMORY", "ENGINE_ERROR"}

\* C14: every Error line on stdout, and every Error a handler returned, carries
\* a code of the closed set; no other response carries a code.
C14_ClosedErrorCodes ==
  /\ \A i \in DOMAIN out :
       IF out[i].type = "error" THEN out[i].code \in ErrorCodes
       ELSE out[i].code = Absent
  /\ response.type = "error" => response.code \in ErrorCodes

C14_Witness ==
  /\ bridge = "tts"
  /\ Len(out) = 4
  /\ {out[i].code : i \in 2..4} = {"INVALID_TEXT", "VOICE_NOT_FOUND", "ENGINE_ERROR"}

\* C15: in the tts bridge the temp directory exists from before Ready is sent
\* until the loop has been left: it exists in every state of startup after
\* mkdtemp and of serving, every artifact is written into the existing
\* directory, the directory is removed at most once, and once it is removed
\* the process has ended and no line was written after the loop was left.
C15_TempDirLifetime ==
  bridge = "tts" =>
    /\ (pc \in {"load", "ready", "for", "cleanup"} \/ InLine) => temp_dir = "exists"
    /\ artifacts # {} => temp_dir = "exists"
    /\ hist.releases <= 1
    /\ temp_dir = "removed" => /\ pc = "exit"
                               /\ hist.releases = 1
                               /\ out = hist.top.out

\* a served run: an audio response was sent, then the directory was removed
C15_Witness ==
  /\ bridge = "tts"
  /\ temp_dir = "removed"
  /\ \E i \in 1..Len(out) : out[i].type = "audio"
  /\ out[Len(out)].type = "error"

\* the codes of the errors that reject a request before the model is reached
RejectionCodes ==
  {"INVALID_REQUEST", "INVALID_TEXT", "VOICE_NOT_FOUND", "IMAGE_NOT_FOUND"}

\* the line read last was answered with a rejection
Rejected ==
  /\ pc = "for"
  /\ Len(out) > 0
  /\ hist.outLine[Len(out)] = hist.nRead
  /\ hist.nRead > 0
  /\ out[Len(out)].type = "error"
  /\ out[Len(out)].code \in RejectionCodes

\* C16: after a line was rejected (malformed JSON, unknown type, or a failed
\* validation rule) the model was not invoked for it, and the request counter,
\* the model, the temp directory and the artifact files are what they were
\* when the line was read; the one line written is the error response.
C16_RejectionChangesNothing ==
  Rejected =>
    /\ hist.lineCalls = 0
    /\ hist.modelCalls <= hist.reqLines - 1
    /\ request_counter = hist.top.request_counter
    /\ model = hist.top.model
    /\ artifacts = hist.top.artifacts
    /\ temp_dir = hist.top.temp_dir
    /\ out = Append(hist.top.out, out[Len(out)])

\* a rejection after an audio file was produced
C16_Witness ==
  /\ Rejected
  /\ bridge = "tts"
  /\ request_counter = 1
  /\ artifacts = {1}
  /\ out[Len(out)].code = "VOICE_NOT_FOUND"

\* C17: load_model is called at most once, during startup: once the load has
\* been tried it is never called again, and from Ready on, also after a failed
\* request, the model that was loaded is still the loaded one.
C17_LoadedOnce ==
  /\ hist.loadCalls <= 1
  /\ pc \notin {"mkdtemp", "load"} => hist.loadCalls = 1
  /\ (pc \in {"ready", "for", "cleanup"} \/ InLine) => model = "loaded"
  /\ hist.nRead > 0 => model = "loaded" /\ hist.top.model = "loaded"

\* serving goes on after an out-of-memory failure
C17_Witness ==
  /\ pc = "invoke"
  /\ hist.nRead = 2
  /\ Len(out) = 2
  /\ out[2].code = "OUT_OF_MEMORY"
  /\ model = "loaded"
  /\ hist.loadCalls = 1

\* C18: the model is invoked at most once for each input line, also when the
\* invocation fails; an invocation starts only for the line read last, with
\* none made for it before, and its response is sent before the next read.
C18_NoRetry ==
  /\ hist.lineCalls <= 1
  /\ hist.modelCalls <= hist.reqLines
  /\ pc = "invoke" => hist.lineCalls = 0 /\ request = line
  /\ (pc = "send" /\ hist.failure # "none") => hist.lineCalls = 1
  /\ (pc = "for" /\ hist.lineCalls = 1)
       => /\ hist.outLine[Len(out)] = hist.nRead
          /\ out = Append(hist.top.out, response)

\* two lines whose invocations both failed
C18_Witness ==
  /\ pc = "for"
  /\ hist.nRead = 2
  /\ hist.modelCalls = 2
  /\ hist.lineCalls = 1
  /\ out[2].code = "ENGINE_ERROR"
  /\ out[3].code = "OUT_OF_MEMORY"

\* C19 as stated: two validations of the same request with the same files
\* give the same verdict, the same error response included, whatever was
\* served in between.
C19_SameVerdict ==
  \A i, j \in 1..Len(hist.verdicts) :
    hist.verdicts[i].result = hist.verdicts[j].result

\* C19: two validations of the same request with the same files end the same
\* way (accepted, rejected or raised) after the same rules, and a rejection
\* has the same code and message; its id is the request's id when the request
\* has one and else "req_<n>" for the request counter n at that validation.
C19_SameVerdictButSynthId ==
  \A i, j \in 1..Len(hist.verdicts) :
    LET vi == hist.verdicts[i]
        vj == hist.verdicts[j]
    IN /\ vi.result.kind = vj.result.kind
       /\ vi.result.rules = vj.result.rules
       /\ vi.result.response.type = vj.result.response.type
       /\ vi.result.response.code = vj.result.response.code
       /\ vi.result.response.message = vj.result.response.message
       /\ vi.result.kind = "return"
            => vi.result.response.id =
                 IF request.id = NoId THEN SynthId(vi.counter) ELSE request.id
       /\ (request.id # NoId \/ vi.counter = vj.counter) => vi.result = vj.result

\* a request with an id rejected twice, another request served in between
C19_Witness ==
  /\ Len(hist.verdicts) = 2
  /\ request.id # NoId
  /\ hist.verdicts[1].counter < hist.verdicts[2].counter
  /\ hist.verdicts[2].result.kind = "return"

\* the positions in out of the audio responses
AudioLines == { i \in 1..Len(out) : out[i].type = "audio" }

\* C20: in the tts bridge the audio responses name pairwise different files:
\* each names the file of a counter value above that of every earlier audio
\* response and not above the current counter, which is never below what it
\* was when the line was read; every file present has the name of a counter
\* value already reached.
C20_DistinctArtifacts ==
  bridge = "tts" =>
    /\ \A i, j \in AudioLines :
         i < j => /\ ArtifactName(out[i].path) # ArtifactName(out[j].path)
                  /\ out[i].path < out[j].path
    /\ \A i \in AudioLines : out[i].path \in 1..request_counter
    /\ \A n \in artifacts : n \in 1..request_counter
    /\ request_counter >= hist.top.request_counter
    /\ (pc = "send" /\ response.type = "audio")
         => /\ response.path = request_counter
            /\ request_counter = hist.top.request_counter + 1
            /\ \A i \in AudioLines : out[i].path < response.path

\* two audio responses with a failed save between them
C20_Witness ==
  /\ bridge = "tts"
  /\ Len(out) = 4
  /\ out[2].type = "audio"
  /\ out[3].code = "ENGINE_ERROR"
  /\ out[4].type = "audio"
  /\ out[4].path = 3
  /\ ArtifactName(out[4].path) = "tts_0003.wav"
====
